---- MODULE Spec2Model ----
(***************************************************************************)
(* State-machine model of taskmanager.py: the Task entity, the JSON file   *)
(* repository (save_tasks / load_tasks over one file path) and the         *)
(* TaskManager (constructor, add_task, complete_task, list_tasks).         *)
(*                                                                         *)
(* The file is modelled as the token text json.dump writes, so that a      *)
(* write that fails after open(path, 'w') leaves a truncated text, and     *)
(* load_tasks has to parse what is on disk.  Documents are well typed      *)
(* (task_id an integer, title and description strings, completed a         *)
(* boolean).  The environment faults modelled are those of the write path  *)
(* (open fails, or the write fails after the file was truncated).          *)
(***************************************************************************)
EXTENDS Integers, Sequences, FiniteSets, TLC

VARIABLES
    file,       \* the file at file_path: [exists, text]
    status,     \* per manager: "none" (not constructed), "live", "failed"
    tasks,      \* per manager: self.tasks, a sequence of Task
    loaded,     \* per manager: the collection load_tasks returned at construction
    addCalls,   \* per manager: number of add_task calls made
    addOk,      \* per manager: number of add_task calls that returned normally
    last,       \* the most recent call, how it ended, and the call before it
    held        \* per manager: the list object its caller got from list_tasks

vars == <<file, status, tasks, loaded, addCalls, addOk, last, held>>

----------------------------------------------------------------------------
(* Bounds *)

MaxTasks == 3       \* add_task is not called on a collection this long
MaxId == 3          \* complete_task is called with ids 0..MaxId

Managers == {1, 2}
Titles == {"A"}
Descriptions == {"d"}

----------------------------------------------------------------------------
(* Task *)

Task(task_id, title, description, completed) ==
    [task_id |-> task_id, title |-> title,
     description |-> description, completed |-> completed]

mark_completed_toggle(task) == [task EXCEPT !.completed = ~task.completed]

mark_completed(task) == [task EXCEPT !.completed = TRUE]

(* A JSON object is a sequence of members [k, v]; v is a value token. *)
JInt(i)  == [kind |-> "int",  n |-> i, s |-> "", b |-> FALSE]
JStr(x)  == [kind |-> "str",  n |-> 0, s |-> x,  b |-> FALSE]
JBool(x) == [kind |-> "bool", n |-> 0, s |-> "", b |-> x]
JKey(x)  == [kind |-> "key",  n |-> 0, s |-> x,  b |-> FALSE]
JPunct(x) == [kind |-> x,     n |-> 0, s |-> "", b |-> FALSE]

to_dict_no_completed(task) ==
    << [k |-> "task_id",     v |-> JInt(task.task_id)],
       [k |-> "title",       v |-> JStr(task.title)],
       [k |-> "description", v |-> JStr(task.description)] >>

to_dict(task) ==
    << [k |-> "task_id",     v |-> JInt(task.task_id)],
       [k |-> "title",       v |-> JStr(task.title)],
       [k |-> "description", v |-> JStr(task.description)],
       [k |-> "completed",   v |-> JBool(task.completed)] >>

----------------------------------------------------------------------------
(* json.dump / json.load on token texts *)

RECURSIVE DumpMembers(_)
DumpMembers(obj) ==
    IF obj = <<>> THEN <<>>
    ELSE <<JKey(Head(obj).k), Head(obj).v>> \o DumpMembers(Tail(obj))

RECURSIVE DumpElements(_)
DumpElements(objs) ==
    IF objs = <<>> THEN <<>>
    ELSE <<JPunct("{")>> \o DumpMembers(Head(objs)) \o <<JPunct("}")>>
         \o DumpElements(Tail(objs))

json_dump(objs) == <<JPunct("[")>> \o DumpElements(objs) \o <<JPunct("]")>>

ParseError == [ok |-> FALSE, data |-> <<>>, next |-> 0]

RECURSIVE ParseMembers(_, _, _)
ParseMembers(text, i, acc) ==
    IF i > Len(text) THEN ParseError
    ELSE IF text[i].kind = "}" THEN [ok |-> TRUE, data |-> acc, next |-> i + 1]
    ELSE IF /\ text[i].kind = "key"
            /\ i + 1 <= Len(text)
            /\ text[i + 1].kind \in {"int", "str", "bool"}
         THEN ParseMembers(text, i + 2,
                           Append(acc, [k |-> text[i].s, v |-> text[i + 1]]))
    ELSE ParseError

RECURSIVE ParseElements(_, _, _)
ParseElements(text, i, acc) ==
    IF i > Len(text) THEN ParseError
    ELSE IF text[i].kind = "]"
         THEN IF i = Len(text) THEN [ok |-> TRUE, data |-> acc, next |-> i + 1]
              ELSE ParseError
    ELSE IF text[i].kind = "{"
         THEN LET r == ParseMembers(text, i + 1, <<>>)
              IN  IF r.ok THEN ParseElements(text, r.next, Append(acc, r.data))
                  ELSE ParseError
    ELSE ParseError

JsonError == [ok |-> FALSE, top |-> "none", data |-> <<>>]

(* json.load: the value the text holds, with the kind of the top-level      *)
(* value: an array of objects, one object, or one string, integer or        *)
(* boolean.  (An array element that is not an object is reported as an      *)
(* error here; load_tasks raises on it either way.)                         *)
json_load(text) ==
    IF Len(text) = 0 THEN JsonError
    ELSE IF text[1].kind = "["
         THEN LET r == ParseElements(text, 2, <<>>)
              IN  IF r.ok THEN [ok |-> TRUE, top |-> "array", data |-> r.data]
                  ELSE JsonError
    ELSE IF text[1].kind = "{"
         THEN LET r == ParseMembers(text, 2, <<>>)
              IN  IF r.ok /\ r.next = Len(text) + 1
                  THEN [ok |-> TRUE, top |-> "object", data |-> r.data]
                  ELSE JsonError
    ELSE IF Len(text) = 1 /\ text[1].kind \in {"int", "str", "bool"}
         THEN [ok |-> TRUE, top |-> text[1].kind, data |-> text]
    ELSE JsonError

----------------------------------------------------------------------------
(* Task built from a parsed object, as load_tasks does with keyword arguments *)

Keys(obj) == {obj[j].k : j \in 1..Len(obj)}

\* a dict keeps the last value given for a key
Value(obj, key) ==
    LET j == CHOOSE j \in 1..Len(obj) :
                 /\ obj[j].k = key
                 /\ \A h \in (j + 1)..Len(obj) : obj[h].k # key
    IN  obj[j].v

TaskArgsOk(obj) ==
    /\ {"task_id", "title", "description"} \subseteq Keys(obj)
    /\ Keys(obj) \subseteq {"task_id", "title", "description", "completed"}

\* variant: the stored completed value is not passed on
TaskFromDict_pending(obj) ==
    Task(Value(obj, "task_id").n, Value(obj, "title").s,
         Value(obj, "description").s, FALSE)

TaskFromDict(obj) ==
    Task(Value(obj, "task_id").n, Value(obj, "title").s,
         Value(obj, "description").s,
         IF "completed" \in Keys(obj) THEN Value(obj, "completed").b ELSE FALSE)

----------------------------------------------------------------------------
(* JsonTaskRepository *)

Absent == [exists |-> FALSE, text |-> <<>>]
Written(text) == [exists |-> TRUE, text |-> text]

Records(ts) == [i \in 1..Len(ts) |-> to_dict(ts[i])]

(* Where a failing write can stop: nothing written, half of the text, all  *)
(* of it but the closing bracket.                                          *)
WriteCuts(text) == {0, Len(text) \div 2, Len(text) - 1}

\* variant: a file holding a longer document than the one to write is kept
save_tasks_keeps_longer(f, ts) ==
    LET text == json_dump(Records(ts))
    IN  IF f.exists /\ Len(f.text) > Len(text)
        THEN {[file |-> f, raised |-> FALSE]}
        ELSE {[file |-> Written(text), raised |-> FALSE]}
             \cup {[file |-> f, raised |-> TRUE]}
             \cup {[file |-> Written(SubSeq(text, 1, n)), raised |-> TRUE] :
                      n \in WriteCuts(text)}

(* The outcomes of save_tasks(ts) on file f.  open(path, 'w') either fails  *)
(* (f is untouched) or truncates f; json.dump then writes the text, and a   *)
(* failure on the way leaves the part written so far.  Every failure is     *)
(* re-raised as Exception.                                                  *)
save_tasks(f, ts) ==
    LET text == json_dump(Records(ts))
    IN  {[file |-> Written(text), raised |-> FALSE]}
        \cup {[file |-> f, raised |-> TRUE]}
        \cup {[file |-> Written(SubSeq(text, 1, n)), raised |-> TRUE] :
                 n \in WriteCuts(text)}

Loaded(ts) == [raised |-> FALSE, tasks |-> ts]
LoadRaised == [raised |-> TRUE, tasks |-> <<>>]

\* variant: a missing file is an error like any other
load_tasks_missing_raises(f) ==
    IF ~f.exists THEN LoadRaised
    ELSE LET r == json_load(f.text)
         IN  IF r.ok /\ r.top = "array"
                /\ \A i \in 1..Len(r.data) : TaskArgsOk(r.data[i])
             THEN Loaded([i \in 1..Len(r.data) |-> TaskFromDict(r.data[i])])
             ELSE LoadRaised

(* load_tasks on file f: FileNotFoundError gives [], any other failure      *)
(* (json.load on a malformed text, Task() on a wrong key set) is re-raised. *)
(* The comprehension iterates over whatever json.load returned: the         *)
(* elements of an array, the keys of an object, the characters of a string  *)
(* (Task() raises on a key or a character, so only an empty object or       *)
(* string gets through, as []); an integer or boolean cannot be iterated.   *)
load_tasks(f) ==
    IF ~f.exists THEN Loaded(<<>>)
    ELSE LET r == json_load(f.text)
         IN  IF ~r.ok THEN LoadRaised
             ELSE IF r.top = "array"
                  THEN IF \A i \in 1..Len(r.data) : TaskArgsOk(r.data[i])
                       THEN Loaded([i \in 1..Len(r.data) |-> TaskFromDict(r.data[i])])
                       ELSE LoadRaised
             ELSE IF r.top = "object"
                  THEN IF r.data = <<>> THEN Loaded(<<>>) ELSE LoadRaised
             ELSE IF r.top = "str"
                  THEN IF r.data[1].s = "" THEN Loaded(<<>>) ELSE LoadRaised
             ELSE LoadRaised

----------------------------------------------------------------------------
(* TaskManager *)

Outcome(ts, f, result, saves) ==
    [tasks |-> ts, file |-> f, result |-> result, saves |-> saves]

SaveResult(o) == IF o.raised THEN "Exception" ELSE "ok"

\* variant: the appended task is taken back when the save fails
add_task_rollback(ts, f, title, description) ==
    LET new == Append(ts, Task(Len(ts) + 1, title, description, FALSE))
    IN  {Outcome(IF o.raised THEN ts ELSE new, o.file, SaveResult(o), 1) :
            o \in save_tasks(f, new)}

\* variant: the id is the length before the append, without the + 1
add_task_id_from_len(ts, f, title, description) ==
    LET new == Append(ts, Task(Len(ts), title, description, FALSE))
    IN  {Outcome(new, o.file, SaveResult(o), 1) : o \in save_tasks(f, new)}

\* variant: the collection is saved before the new task is appended
add_task_save_before_append(ts, f, title, description) ==
    LET new == Append(ts, Task(Len(ts) + 1, title, description, FALSE))
    IN  {Outcome(new, o.file, SaveResult(o), 1) : o \in save_tasks(f, ts)}

MaxOf(S) == CHOOSE x \in S : \A y \in S : y <= x

\* variant: the id is one more than the greatest id in the collection
add_task_max_plus_one(ts, f, title, description) ==
    LET task_id == IF ts = <<>> THEN 1
                   ELSE MaxOf({ts[i].task_id : i \in 1..Len(ts)}) + 1
        new == Append(ts, Task(task_id, title, description, FALSE))
    IN  {Outcome(new, o.file, SaveResult(o), 1) : o \in save_tasks(f, new)}

\* variant: the new task is put in front
add_task_prepend(ts, f, title, description) ==
    LET new == <<Task(Len(ts) + 1, title, description, FALSE)>> \o ts
    IN  {Outcome(new, o.file, SaveResult(o), 1) : o \in save_tasks(f, new)}

(* add_task on collection ts over file f: the set of possible outcomes *)
add_task(ts, f, title, description) ==
    LET task_id == Len(ts) + 1
        task == Task(task_id, title, description, FALSE)
        new == Append(ts, task)
    IN  {Outcome(new, o.file, SaveResult(o), 1) : o \in save_tasks(f, new)}

Matches(ts, task_id) == {i \in 1..Len(ts) : ts[i].task_id = task_id}

FirstMatch(ts, task_id) ==
    CHOOSE i \in Matches(ts, task_id) : \A j \in Matches(ts, task_id) : i <= j

\* variant: the scan does not stop at the first match
complete_task_mark_all_matching(ts, f, task_id) ==
    IF Matches(ts, task_id) = {} THEN {Outcome(ts, f, "ValueError", 0)}
    ELSE LET new == [i \in 1..Len(ts) |->
                        IF ts[i].task_id = task_id THEN mark_completed(ts[i])
                        ELSE ts[i]]
         IN  {Outcome(new, o.file, SaveResult(o), 1) : o \in save_tasks(f, new)}

\* variant: the collection is saved before ValueError is raised
complete_task_save_on_miss(ts, f, task_id) ==
    IF Matches(ts, task_id) = {}
    THEN {Outcome(ts, o.file, "ValueError", 1) : o \in save_tasks(f, ts)}
    ELSE LET i == FirstMatch(ts, task_id)
             new == [ts EXCEPT ![i] = mark_completed(ts[i])]
         IN  {Outcome(new, o.file, SaveResult(o), 1) : o \in save_tasks(f, new)}

\* variant: the mark is taken back when the save fails
complete_task_rollback(ts, f, task_id) ==
    IF Matches(ts, task_id) = {} THEN {Outcome(ts, f, "ValueError", 0)}
    ELSE LET i == FirstMatch(ts, task_id)
             new == [ts EXCEPT ![i] = mark_completed(ts[i])]
         IN  {Outcome(IF o.raised THEN ts ELSE new, o.file, SaveResult(o), 1) :
                 o \in save_tasks(f, new)}

(* complete_task on collection ts over file f: the set of possible outcomes *)
complete_task(ts, f, task_id) ==
    IF Matches(ts, task_id) = {} THEN {Outcome(ts, f, "ValueError", 0)}
    ELSE LET i == FirstMatch(ts, task_id)
             new == [ts EXCEPT ![i] = mark_completed(ts[i])]
         IN  {Outcome(new, o.file, SaveResult(o), 1) : o \in save_tasks(f, new)}

RECURSIVE Pending(_)
Pending(ts) ==
    IF ts = <<>> THEN <<>>
    ELSE IF Head(ts).completed THEN Pending(Tail(ts))
    ELSE <<Head(ts)>> \o Pending(Tail(ts))

\* variant: only the tasks not yet completed are listed
list_tasks_pending_only(ts) == Pending(ts)

list_tasks(ts) == ts

----------------------------------------------------------------------------
(* Initial states: what the file holds before any manager is constructed *)

InitCollections ==
    { <<>>,
      <<Task(5, "X", "d", FALSE)>>,
      <<Task(2, "A", "d", FALSE)>>,
      <<Task(1, "A", "d", FALSE), Task(2, "B", "d", TRUE)>>,
      <<Task(2, "A", "d", TRUE), Task(1, "B", "d", FALSE)>> }

\* a document written by another program: "completed" left out
NoCompletedText ==
    <<JPunct("["), JPunct("{"), JKey("task_id"), JInt(1), JKey("title"), JStr("A"),
      JKey("description"), JStr("d"), JPunct("}"), JPunct("]")>>

\* documents load_tasks cannot read: no title, an unknown key, a cut text
MalformedTexts ==
    { <<JPunct("["), JPunct("{"), JKey("task_id"), JInt(1),
        JKey("description"), JStr("d"), JPunct("}"), JPunct("]")>>,
      <<JPunct("["), JPunct("{"), JKey("task_id"), JInt(1), JKey("title"), JStr("A"),
        JKey("description"), JStr("d"), JKey("owner"), JStr("A"),
        JPunct("}"), JPunct("]")>>,
      <<JPunct("["), JPunct("{")>> }

\* valid JSON that is not an array: an empty object, an empty string,
\* an object with a member, a number
NonArrayTexts ==
    { <<JPunct("{"), JPunct("}")>>,
      <<JStr("")>>,
      <<JPunct("{"), JKey("task_id"), JInt(1), JPunct("}")>>,
      <<JInt(1)>> }

InitFiles ==
    {Absent}
    \cup {Written(json_dump(Records(ts))) : ts \in InitCollections}
    \cup {Written(NoCompletedText)}
    \cup {Written(t) : t \in MalformedTexts}
    \cup {Written(t) : t \in NonArrayTexts}

NoSave == [op |-> "none", mgr |-> 0, id |-> 0]

\* what is kept of the call before: which call it was, if it saved and returned
Digest(call) ==
    IF call.saves = 1 /\ call.result = "ok"
    THEN [op |-> call.op, mgr |-> call.mgr, id |-> call.id]
    ELSE NoSave

Call(op, m, id, result, saves, loads) ==
    [op |-> op, mgr |-> m, id |-> id, result |-> result,
     saves |-> saves, loads |-> loads, prev |-> Digest(last), ret |-> <<>>]

Init ==
    /\ file \in InitFiles
    /\ status = [m \in Managers |-> "none"]
    /\ tasks = [m \in Managers |-> <<>>]
    /\ loaded = [m \in Managers |-> <<>>]
    /\ addCalls = [m \in Managers |-> 0]
    /\ addOk = [m \in Managers |-> 0]
    /\ last = [op |-> "none", mgr |-> 0, id |-> 0, result |-> "ok",
               saves |-> 0, loads |-> 0,
               prev |-> NoSave, ret |-> <<>>]
    /\ held = [m \in Managers |-> "none"]

(* TaskManager(repository): one load_tasks call; its error propagates *)
TaskManager_init(m) ==
    LET r == load_tasks(file)
    IN  /\ status' = [status EXCEPT ![m] = IF r.raised THEN "failed" ELSE "live"]
        /\ tasks' = [tasks EXCEPT ![m] = r.tasks]
        /\ loaded' = [loaded EXCEPT ![m] = r.tasks]
        /\ addCalls' = [addCalls EXCEPT ![m] = 0]
        /\ addOk' = [addOk EXCEPT ![m] = 0]
        /\ last' = Call("init", m, 0, IF r.raised THEN "Exception" ELSE "ok", 0, 1)
        /\ held' = [held EXCEPT ![m] = "none"]
        /\ UNCHANGED file

Construct(m) ==
    /\ status[m] = "none"
    /\ TaskManager_init(m)

(* the program is run again: a new manager is constructed over the file *)
Restart(m) ==
    /\ status[m] # "none"
    /\ TaskManager_init(m)

AddTask(m, title, description) ==
    /\ status[m] = "live"
    /\ Len(tasks[m]) < MaxTasks
    /\ \E o \in add_task(tasks[m], file, title, description) :
          /\ tasks' = [tasks EXCEPT ![m] = o.tasks]
          /\ file' = o.file
          /\ addCalls' = [addCalls EXCEPT ![m] = @ + 1]
          /\ addOk' = [addOk EXCEPT ![m] = IF o.result = "ok" THEN @ + 1 ELSE @]
          /\ last' = Call("add_task", m, Len(tasks[m]) + 1, o.result, o.saves, 0)
    /\ UNCHANGED <<status, loaded, held>>

CompleteTask(m, task_id) ==
    /\ status[m] = "live"
    /\ \E o \in complete_task(tasks[m], file, task_id) :
          /\ tasks' = [tasks EXCEPT ![m] = o.tasks]
          /\ file' = o.file
          /\ last' = Call("complete_task", m, task_id, o.result, o.saves, 0)
    /\ UNCHANGED <<status, loaded, addCalls, addOk, held>>

(* list_tasks returns self.tasks: the caller gets the manager's own list   *)
(* object, with the manager's own Task objects in it, not a copy.          *)
list_tasks_returns == "self.tasks"

ListTasks(m) ==
    /\ status[m] = "live"
    /\ last' = [Call("list_tasks", m, Len(list_tasks(tasks[m])), "ok", 0, 0)
                  EXCEPT !.ret = list_tasks(tasks[m])]
    /\ held' = [held EXCEPT ![m] = list_tasks_returns]
    /\ UNCHANGED <<file, status, tasks, loaded, addCalls, addOk>>

\* a task the caller builds itself
CallerTask == Task(0, "Z", "z", FALSE)

(* What a caller can do to the list object it holds: append to it, remove  *)
(* its last element, set the completed attribute of a task in it.          *)
CallerEdits(ts) ==
    (IF Len(ts) < MaxTasks THEN {Append(ts, CallerTask)} ELSE {})
    \cup (IF Len(ts) > 0 THEN {SubSeq(ts, 1, Len(ts) - 1)} ELSE {})
    \cup {[ts EXCEPT ![i].completed = ~ts[i].completed] : i \in 1..Len(ts)}

(* The caller changes the object list_tasks gave it.  The object is the    *)
(* manager's list, so the change is a change of self.tasks; no manager     *)
(* method runs and nothing is saved.                                       *)
CallerMutates(m) ==
    /\ status[m] = "live"
    /\ held[m] = "self.tasks"
    /\ \E new \in CallerEdits(tasks[m]) :
          tasks' = [tasks EXCEPT ![m] = new]
    /\ last' = Call("caller", m, 0, "ok", 0, 0)
    /\ UNCHANGED <<file, status, loaded, addCalls, addOk, held>>

Ids == 0..MaxId \cup {5}

Step(m) ==
    \/ Construct(m)
    \/ \E title \in Titles, description \in Descriptions :
          AddTask(m, title, description)
    \/ \E task_id \in Ids : CompleteTask(m, task_id)
    \/ ListTasks(m)

(* one manager over the file *)
Next == Step(1)

Spec == Init /\ [][Next]_vars

(* two managers over the same file, their calls interleaved, while the    *)
(* two collections together hold no more than MaxTasks tasks              *)
NextTwo ==
    \E m \in Managers :
        \/ /\ Construct(m)
           /\ Len(tasks'[1]) + Len(tasks'[2]) <= MaxTasks
        \/ /\ Len(tasks[1]) + Len(tasks[2]) < MaxTasks
           /\ \E title \in Titles, description \in Descriptions :
                 AddTask(m, title, description)
        \/ \E task_id \in Ids : CompleteTask(m, task_id)

InitTwo == Init /\ file = Absent

SpecTwo == InitTwo /\ [][NextTwo]_vars

(* one manager makes the calls; when it is done a second one is           *)
(* constructed over the same file, and only lists                         *)
WriterActive == status[2] = "none"

NextReader ==
    \/ WriterActive /\ Construct(1)
    \/ WriterActive /\ \E title \in Titles, description \in Descriptions :
                            AddTask(1, title, description)
    \/ WriterActive /\ \E task_id \in Ids : CompleteTask(1, task_id)
    \/ WriterActive /\ ListTasks(1)
    \/ Construct(2)
    \/ ListTasks(2)

SpecReader == Init /\ [][NextReader]_vars

(* one manager at a time over the file, the program run again at any point *)
NextRestart == Step(1) \/ Restart(1)

SpecRestart == Init /\ [][NextRestart]_vars

(* one manager, and a caller that edits the list list_tasks returned *)
(* (the caller can remove tasks, so the number of add_task calls is        *)
(* bounded as well as the length)                                          *)
NextAlias ==
    \/ Construct(1)
    \/ /\ addCalls[1] < MaxTasks
       /\ \E title \in Titles, description \in Descriptions :
             AddTask(1, title, description)
    \/ \E task_id \in Ids : CompleteTask(1, task_id)
    \/ ListTasks(1)
    \/ CallerMutates(1)

SpecAlias == InitTwo /\ [][NextAlias]_vars

----------------------------------------------------------------------------
(* Properties *)

Live(m) == status[m] = "live"

(* what load_tasks would return now: the persisted collection *)
Persisted(f) == load_tasks(f)

Holds(f, ts) == Persisted(f) = [raised |-> FALSE, tasks |-> ts]

IdsByPosition(ts) == \A i \in 1..Len(ts) : ts[i].task_id = i

NoSharedId(ts) ==
    \A i, j \in 1..Len(ts) : i # j => ts[i].task_id # ts[j].task_id

(* C1, as stated: over an initially empty backend the task at position i   *)
(* has id i, and the length of list_tasks() is the number of add_task      *)
(* calls that returned successfully.                                       *)
C1_LengthIsSuccessfulAdds ==
    \A m \in Managers :
        (Live(m) /\ loaded[m] = <<>>) =>
            /\ IdsByPosition(tasks[m])
            /\ Len(list_tasks(tasks[m])) = addOk[m]

(* C1, amended: over an initially empty backend the task at position i has *)
(* id i, and the length of list_tasks() is the number of add_task calls    *)
(* made, those whose save failed included.                                 *)
C1_LengthIsAllAdds ==
    \A m \in Managers :
        (Live(m) /\ loaded[m] = <<>>) =>
            /\ IdsByPosition(tasks[m])
            /\ Len(list_tasks(tasks[m])) = addCalls[m]

C1_Witness ==
    /\ Live(1) /\ loaded[1] = <<>>
    /\ addCalls[1] >= 2 /\ addOk[1] < addCalls[1]
    /\ last.op = "add_task" /\ last.result = "ok"

(* C2, as stated: whatever collection was loaded, no two tasks of a        *)
(* manager's collection share an id.                                       *)
C2_NoSharedIdEver ==
    \A m \in Managers : Live(m) => NoSharedId(tasks[m])

(* C2, amended: when the collection loaded at construction has pairwise    *)
(* distinct ids, none greater than its length, no two tasks of the         *)
(* manager's collection share an id.                                       *)
C2_NoSharedIdFromDenseLoad ==
    \A m \in Managers :
        ( /\ Live(m)
          /\ NoSharedId(loaded[m])
          /\ \A i \in 1..Len(loaded[m]) : loaded[m][i].task_id <= Len(loaded[m]) )
        => NoSharedId(tasks[m])

C2_Witness ==
    /\ Live(1)
    /\ Len(loaded[1]) = 2 /\ loaded[1][1].task_id = 2 /\ loaded[1][2].task_id = 1
    /\ Len(tasks[1]) > Len(loaded[1])
    /\ last.op = "add_task"

(* C3, as stated: a save_tasks call leaves the persisted collection either *)
(* the collection passed in (the call returned) or what it was before the  *)
(* call (the call raised).                                                 *)
C3_SaveIsAtomic ==
    [][ last'.saves = 1 =>
          \/ /\ last'.result = "ok"
             /\ Holds(file', tasks'[last'.mgr])
          \/ /\ last'.result # "ok"
             /\ Persisted(file') = Persisted(file) ]_vars

(* C4: with one manager, whenever the constructor, add_task or             *)
(* complete_task has returned normally, the persisted collection is the    *)
(* manager's collection.                                                   *)
C4_ConsistentAtReturn ==
    ( /\ last.op \in {"init", "add_task", "complete_task"}
      /\ last.result = "ok" )
    => Holds(file, tasks[last.mgr])

C4_Witness ==
    /\ last.op = "complete_task" /\ last.result = "ok"
    /\ addOk[1] < addCalls[1]
    /\ Len(tasks[1]) >= 2

(* C5: complete_task(id) with id in the collection marks the first task    *)
(* with that id completed, leaves every other task as it was, and on       *)
(* normal return the persisted collection is the manager's collection.     *)
C5_CompleteMarksOne ==
    [][ \A m \in Managers :
          ( /\ last'.op = "complete_task" /\ last'.mgr = m
            /\ Matches(tasks[m], last'.id) # {} )
          => /\ last'.result # "ValueError"
             /\ Len(tasks'[m]) = Len(tasks[m])
             /\ \E i \in Matches(tasks[m], last'.id) :
                   /\ \A j \in Matches(tasks[m], last'.id) : i <= j
                   /\ tasks'[m][i] = [tasks[m][i] EXCEPT !.completed = TRUE]
                   /\ \A j \in 1..Len(tasks[m]) : j # i => tasks'[m][j] = tasks[m][j]
             /\ last'.result = "ok" => Holds(file', tasks'[m]) ]_vars

C5_Witness ==
    /\ last.op = "complete_task" /\ last.result = "ok" /\ last.mgr = 1
    /\ \E i, j \in 1..Len(tasks[1]) :
          /\ tasks[1][i].task_id = last.id /\ tasks[1][i].completed
          /\ j # i /\ ~tasks[1][j].completed

(* C6: complete_task(id) with id in no task raises ValueError, calls       *)
(* save_tasks not at all, and leaves the collection and the file as they   *)
(* were.                                                                   *)
C6_MissChangesNothing ==
    [][ \A m \in Managers :
          ( /\ last'.op = "complete_task" /\ last'.mgr = m
            /\ Matches(tasks[m], last'.id) = {} )
          => /\ last'.result = "ValueError"
             /\ last'.saves = 0
             /\ tasks' = tasks
             /\ file' = file ]_vars

C6_Witness ==
    /\ last.op = "complete_task" /\ last.result = "ValueError"
    /\ Len(tasks[last.mgr]) > 0
    /\ file.exists

(* C7: when the save made by add_task or complete_task fails, the call     *)
(* raises and the change stays in the collection: the appended task is     *)
(* still its last element, the marked task is still completed.             *)
C7_NoRollback ==
    [][ \A m \in Managers :
          ( /\ last'.mgr = m /\ last'.saves = 1 /\ last'.result # "ok" )
          => /\ last'.result = "Exception"
             /\ last'.op = "add_task" =>
                   /\ Len(tasks'[m]) = Len(tasks[m]) + 1
                   /\ SubSeq(tasks'[m], 1, Len(tasks[m])) = tasks[m]
                   /\ tasks'[m][Len(tasks'[m])].task_id = last'.id
                   /\ ~tasks'[m][Len(tasks'[m])].completed
             /\ last'.op = "complete_task" =>
                   /\ Len(tasks'[m]) = Len(tasks[m])
                   /\ \E i \in Matches(tasks'[m], last'.id) : tasks'[m][i].completed ]_vars

\* after a failed save the collection and the file differ
C7_Witness ==
    /\ Live(1) /\ loaded[1] = <<>>
    /\ last.op = "complete_task" /\ last.mgr = 1
    /\ last.saves = 1 /\ last.result = "Exception"
    /\ addOk[1] < addCalls[1]
    /\ ~Holds(file, tasks[1])
    /\ \E i \in Matches(tasks[1], last.id) : tasks[1][i].completed

(* C8: a non-empty collection saved with save_tasks and then loaded with   *)
(* load_tasks from the same file, nothing written in between, comes back   *)
(* with the same length, order and field values.                           *)
C8_RoundTrip ==
    [][ ( /\ last.saves = 1 /\ last.result = "ok"
          /\ tasks[last.mgr] # <<>>
          /\ last'.op = "init" )
        => /\ last'.result = "ok"
           /\ Len(tasks'[last'.mgr]) = Len(tasks[last.mgr])
           /\ \A i \in 1..Len(tasks[last.mgr]) :
                 /\ tasks'[last'.mgr][i].task_id = tasks[last.mgr][i].task_id
                 /\ tasks'[last'.mgr][i].title = tasks[last.mgr][i].title
                 /\ tasks'[last'.mgr][i].description = tasks[last.mgr][i].description
                 /\ tasks'[last'.mgr][i].completed = tasks[last.mgr][i].completed ]_vars

C8_Witness ==
    /\ last.op = "init" /\ last.result = "ok"
    /\ last.prev.op = "complete_task"
    /\ Len(tasks[last.mgr]) >= 2
    /\ \E i, j \in 1..Len(tasks[last.mgr]) :
          tasks[last.mgr][i].completed /\ ~tasks[last.mgr][j].completed

SameCallAgain ==
    /\ last.op = "complete_task" /\ last.result = "ok"
    /\ last'.op = "complete_task" /\ last'.mgr = last.mgr /\ last'.id = last.id

(* C9, as stated: complete_task(id) called again right after it returned   *)
(* returns normally again, and leaves the collection and the persisted     *)
(* collection as the first call left them, the task completed.             *)
C9_SecondCallSucceeds ==
    [][ SameCallAgain =>
          /\ last'.result = "ok"
          /\ tasks' = tasks
          /\ Persisted(file') = Persisted(file)
          /\ \E i \in Matches(tasks'[last'.mgr], last'.id) :
                tasks'[last'.mgr][i].completed ]_vars

(* C9, amended: complete_task(id) called again right after it returned     *)
(* does not raise ValueError and leaves the collection as the first call   *)
(* left it, the task completed; it saves again, and that save can fail;    *)
(* when it returns normally the persisted collection is as the first call  *)
(* left it.                                                                *)
C9_SecondCallNoNotFound ==
    [][ SameCallAgain =>
          /\ last'.result # "ValueError"
          /\ last'.saves = 1
          /\ tasks' = tasks
          /\ \E i \in Matches(tasks'[last'.mgr], last'.id) :
                tasks'[last'.mgr][i].completed
          /\ last'.result = "ok" => Persisted(file') = Persisted(file) ]_vars

C9_Witness ==
    /\ last.op = "complete_task" /\ last.result = "ok"
    /\ last.prev = [op |-> "complete_task", mgr |-> last.mgr, id |-> last.id]
    /\ \E i \in Matches(tasks[last.mgr], last.id) : tasks[last.mgr][i].completed

(* C10: a task of a manager's collection that is completed stays in the    *)
(* collection and stays completed across every add_task, complete_task and *)
(* list_tasks call, failed saves included.                                 *)
C10_CompletedStays ==
    [][ \A m \in Managers : \A i \in 1..Len(tasks[m]) :
          ( Live(m) /\ tasks[m][i].completed )
          => /\ i <= Len(tasks'[m])
             /\ tasks'[m][i].completed ]_vars

C10_Witness ==
    /\ Live(1) /\ loaded[1] = <<>>
    /\ last.op = "complete_task" /\ last.result = "Exception"
    /\ last.prev.op = "add_task"
    /\ \E i \in 1..Len(tasks[1]) :
          tasks[1][i].completed /\ tasks[1][i].task_id # last.id

(* C11: add_task appends one task at the end, with id the length of the    *)
(* collection before the call plus one and completed false, whatever ids   *)
(* the collection holds: over a file holding one task with id 5 the first  *)
(* add_task gives id 2.                                                    *)
C11_IdIsLengthPlusOne ==
    [][ \A m \in Managers :
          ( last'.op = "add_task" /\ last'.mgr = m )
          => /\ Len(tasks'[m]) = Len(tasks[m]) + 1
             /\ SubSeq(tasks'[m], 1, Len(tasks[m])) = tasks[m]
             /\ tasks'[m][Len(tasks'[m])].task_id = Len(tasks[m]) + 1
             /\ tasks'[m][Len(tasks'[m])].completed = FALSE
             /\ tasks'[m][Len(tasks'[m])].title \in Titles
             /\ tasks'[m][Len(tasks'[m])].description \in Descriptions
             /\ ( loaded[m] = <<Task(5, "X", "d", FALSE)>> /\ addCalls[m] = 0 )
                => tasks'[m][2].task_id = 2 ]_vars

C11_Witness ==
    /\ Live(1) /\ loaded[1] = <<Task(5, "X", "d", FALSE)>>
    /\ last.op = "add_task" /\ addCalls[1] = 1
    /\ Len(tasks[1]) = 2
    /\ tasks[1][1].task_id = 5 /\ tasks[1][2].task_id = 2

(* C12: over a path where no file exists, load_tasks returns [] and raises *)
(* nothing: the constructor succeeds, the manager starts with an empty     *)
(* collection, and nothing is saved (there is still no file).              *)
C12_FirstRunLoadsEmpty ==
    [][ ( last'.op = "init" /\ ~file.exists )
        => /\ last'.result = "ok"
           /\ status'[last'.mgr] = "live"
           /\ tasks'[last'.mgr] = <<>>
           /\ last'.saves = 0
           /\ ~file'.exists ]_vars

C12_Witness ==
    /\ last.op = "init" /\ last.result = "ok" /\ last.mgr = 1
    /\ Live(1) /\ tasks[1] = <<>>
    /\ ~file.exists

\* the text is an array of objects that each give task_id, title and
\* description, and nothing but those and completed
WellFormedDocument(text) ==
    /\ Len(text) > 0
    /\ text[1].kind = "["
    /\ LET r == ParseElements(text, 2, <<>>)
       IN  r.ok /\ \A i \in 1..Len(r.data) : TaskArgsOk(r.data[i])

(* C13: when the file exists and does not hold a well-formed document,     *)
(* load_tasks raises, the constructor raises with it and no manager        *)
(* exists; the constructor calls load_tasks once.                          *)
C13_MalformedLoadRaises ==
    [][ ( last'.op = "init" /\ file.exists /\ ~WellFormedDocument(file.text) )
        => /\ last'.result = "Exception"
           /\ status'[last'.mgr] = "failed"
           /\ last'.loads = 1 ]_vars

(* C14: list_tasks calls neither save_tasks nor load_tasks, leaves the     *)
(* collection and the file as they are, and returns the collection, in     *)
(* order.                                                                  *)
C14_ListIsReadOnly ==
    [][ last'.op = "list_tasks"
        => /\ last'.saves = 0 /\ last'.loads = 0
           /\ last'.result = "ok"
           /\ tasks' = tasks
           /\ file' = file
           /\ last'.ret = tasks[last'.mgr] ]_vars

C14_Witness ==
    /\ last.op = "list_tasks" /\ last.mgr = 1
    /\ Len(last.ret) >= 2
    /\ last.ret = tasks[1]
    /\ \E i, j \in 1..Len(last.ret) : last.ret[i].completed /\ ~last.ret[j].completed

(* C15: with two managers over one file, a save that returns leaves in the *)
(* file exactly the saving manager's collection, whatever the other        *)
(* manager had written: nothing is merged, no save is refused.  So a task  *)
(* one manager added and saved can be gone from the file after the other   *)
(* manager's save.                                                         *)
C15_LastWriterWins ==
    [][ ( last'.saves = 1 /\ last'.result = "ok" )
        => Holds(file', tasks'[last'.mgr]) ]_vars

\* manager 1 added task 2 and saved it; then manager 2, which had loaded
\* before, saved its own collection: task 2 is not in the file any more
C15_Witness ==
    /\ last.op = "add_task" /\ last.result = "ok" /\ last.mgr = 2
    /\ last.prev = [op |-> "add_task", mgr |-> 1, id |-> 2]
    /\ Matches(tasks[1], 2) # {}
    /\ ~Persisted(file).raised
    /\ Matches(Persisted(file).tasks, 2) = {}

(* C16: across every add_task, complete_task and list_tasks step the       *)
(* collection keeps its tasks, in the same positions, with the same id,    *)
(* title and description; only completed can differ and tasks can only be  *)
(* added at the end.                                                       *)
C16_PrefixKept ==
    [][ \A m \in Managers :
          Live(m) =>
             /\ Len(tasks'[m]) >= Len(tasks[m])
             /\ \A i \in 1..Len(tasks[m]) :
                   /\ tasks'[m][i].task_id = tasks[m][i].task_id
                   /\ tasks'[m][i].title = tasks[m][i].title
                   /\ tasks'[m][i].description = tasks[m][i].description ]_vars

C16_Witness ==
    /\ Live(1) /\ Len(loaded[1]) = 2
    /\ Len(tasks[1]) = 3
    /\ last.op = "complete_task" /\ last.result = "ok"
    /\ last.prev.op = "add_task"
    /\ \A i \in 1..2 : tasks[1][i].task_id = loaded[1][i].task_id

(* C17: what the caller does to the list list_tasks returned, or to a task *)
(* in it, does not change the manager's collection.                        *)
C17_CallerCannotChange ==
    [][ last'.op = "caller" => tasks' = tasks ]_vars

(* C18: with one writer, a manager constructed over the file right after   *)
(* the writer's add_task or complete_task returned has the writer's        *)
(* collection, field for field and in order.                               *)
C18_NewManagerSeesSaved ==
    ( /\ last.op = "init" /\ last.mgr = 2
      /\ last.prev.op \in {"add_task", "complete_task"}
      /\ last.prev.mgr = 1 )
    => /\ last.result = "ok"
       /\ Live(2)
       /\ tasks[2] = tasks[1]

C18_Witness ==
    /\ last.op = "init" /\ last.mgr = 2 /\ last.result = "ok"
    /\ last.prev.op = "complete_task" /\ last.prev.mgr = 1
    /\ addCalls[1] >= 2
    /\ Len(tasks[2]) >= 2
    /\ \E i, j \in 1..Len(tasks[2]) : tasks[2][i].completed /\ ~tasks[2][j].completed

(* C19: when a save made by add_task or complete_task failed and the next  *)
(* saving call of the same manager returns, the file holds the whole       *)
(* collection, the change whose save had failed included.                  *)
C19_ConvergesAfterFailure ==
    [][ \A m \in Managers :
          ( /\ last.mgr = m /\ last.saves = 1 /\ last.result = "Exception"
            /\ last'.mgr = m /\ last'.saves = 1 /\ last'.result = "ok" )
          => /\ Holds(file', tasks'[m])
             /\ last.op = "add_task" =>
                   /\ Len(tasks[m]) >= last.id
                   /\ Len(Persisted(file').tasks) >= last.id
                   /\ Persisted(file').tasks[last.id].task_id = last.id
                   /\ Persisted(file').tasks[last.id].title = tasks[m][last.id].title
             /\ last.op = "complete_task" =>
                   \E i \in Matches(Persisted(file').tasks, last.id) :
                      Persisted(file').tasks[i].completed ]_vars

\* an add_task failed to save earlier; a later call saved and returned
C19_Witness ==
    /\ Live(1) /\ last.mgr = 1
    /\ last.saves = 1 /\ last.result = "ok"
    /\ addOk[1] < addCalls[1]
    /\ Holds(file, tasks[1])
    /\ Len(Persisted(file).tasks) = Len(loaded[1]) + addCalls[1]

====
